---- MODULE Spec2Model ----
(***************************************************************************)
(* A model of gcp_sales_pipeline: the granularity calendar, the temporal   *)
(* filter, the sales loader (one Parquet file per day), and run_pipeline   *)
(* (catalog load, null drop, sales load, filter, dedup, join, business     *)
(* filters, enrichment, export).                                           *)
(***************************************************************************)
EXTENDS Integers, Sequences, FiniteSets, TLC

(***************************************************************************)
(* Bounds of the model.                                                    *)
(***************************************************************************)
NumYears == 2
MaxRows == 2

Null == "NULL"

(***************************************************************************)
(* datetime.date: a record [year, month, day] of the proleptic Gregorian   *)
(* calendar, with the ordinal arithmetic behind date - date and            *)
(* date +/- timedelta(days=n).                                             *)
(***************************************************************************)
Years == 2024 .. (2024 + NumYears - 1)

IsLeap(y) == (y % 4 = 0) /\ ((y % 100 # 0) \/ (y % 400 = 0))

DaysInMonth(y, m) ==
    IF m = 2 THEN (IF IsLeap(y) THEN 29 ELSE 28)
    ELSE IF m \in {4, 6, 9, 11} THEN 30 ELSE 31

date(y, m, d) == [year |-> y, month |-> m, day |-> d]

Dates == UNION { { date(y, m, d) : d \in 1 .. DaysInMonth(y, m) } : y \in Years, m \in 1 .. 12 }

DaysBeforeYear(y) == 365 * (y - 1) + ((y - 1) \div 4) - ((y - 1) \div 100) + ((y - 1) \div 400)

RECURSIVE DaysBeforeMonth(_, _)
DaysBeforeMonth(y, m) == IF m = 1 THEN 0 ELSE DaysBeforeMonth(y, m - 1) + DaysInMonth(y, m - 1)

toordinal(d) == DaysBeforeYear(d.year) + DaysBeforeMonth(d.year, d.month) + d.day

fromordinal(n) ==
    LET y == CHOOSE yy \in (2023 .. (2024 + NumYears + 1)) :
                 DaysBeforeYear(yy) < n /\ n <= DaysBeforeYear(yy + 1)
        r == n - DaysBeforeYear(y)
        m == CHOOSE mm \in 1 .. 12 :
                 DaysBeforeMonth(y, mm) < r /\ r <= DaysBeforeMonth(y, mm) + DaysInMonth(y, mm)
    IN  date(y, m, r - DaysBeforeMonth(y, m))

\* d + timedelta(days=n)
PlusDays(d, n) == fromordinal(toordinal(d) + n)

\* d1 < d2, d1 <= d2 on dates
DateLt(d1, d2) == toordinal(d1) < toordinal(d2)
DateLe(d1, d2) == toordinal(d1) <= toordinal(d2)

(***************************************************************************)
(* TimeGranularity                                                         *)
(***************************************************************************)
DAY == "day"
MONTH == "month"
QUARTER == "quarter"
YEAR == "year"
TimeGranularity == {DAY, MONTH, QUARTER, YEAR}

(***************************************************************************)
(* Text: a string is modelled as the sequence of its pieces (digits and    *)
(* separators one character each), so that two texts are equal exactly     *)
(* when the formatted strings are.                                         *)
(***************************************************************************)
DigitChar(n) == <<"0", "1", "2", "3", "4", "5", "6", "7", "8", "9">>[n + 1]

\* %Y / str(year) for a four-digit year, %m and %d zero-padded to two digits
Fmt4(n) == <<DigitChar(n \div 1000), DigitChar((n \div 100) % 10),
             DigitChar((n \div 10) % 10), DigitChar(n % 10)>>
Fmt2(n) == <<DigitChar((n \div 10) % 10), DigitChar(n % 10)>>

isoformat(d) == Fmt4(d.year) \o <<"-">> \o Fmt2(d.month) \o <<"-">> \o Fmt2(d.day)

QuarterOf(m) == ((m - 1) \div 3) + 1

\* build_suffix with the quarter computed as month // 3 + 1
build_suffix_quarter_off(ref_date, granularity) ==
    CASE granularity = DAY -> isoformat(ref_date)
      [] granularity = MONTH -> Fmt4(ref_date.year) \o <<"-">> \o Fmt2(ref_date.month)
      [] granularity = QUARTER ->
            Fmt4(ref_date.year) \o <<"-", "Q">> \o <<DigitChar((ref_date.month \div 3) + 1)>>
      [] granularity = YEAR -> Fmt4(ref_date.year)

build_suffix(ref_date, granularity) ==
    CASE granularity = DAY -> isoformat(ref_date)
      [] granularity = MONTH -> Fmt4(ref_date.year) \o <<"-">> \o Fmt2(ref_date.month)
      [] granularity = QUARTER ->
            Fmt4(ref_date.year) \o <<"-", "Q">> \o <<DigitChar(QuarterOf(ref_date.month))>>
      [] granularity = YEAR -> Fmt4(ref_date.year)

\* the range with QUARTER taken as the whole year
compute_date_range_quarter_as_year(ref_date, granularity) ==
    IF granularity = DAY THEN <<ref_date, ref_date>>
    ELSE IF granularity = MONTH
    THEN <<date(ref_date.year, ref_date.month, 1),
           PlusDays(IF ref_date.month = 12 THEN date(ref_date.year + 1, 1, 1)
                    ELSE date(ref_date.year, ref_date.month + 1, 1), -1)>>
    ELSE <<date(ref_date.year, 1, 1), PlusDays(date(ref_date.year + 1, 1, 1), -1)>>

compute_date_range(ref_date, granularity) ==
    CASE granularity = DAY -> <<ref_date, ref_date>>
      [] granularity = MONTH ->
            LET start == date(ref_date.year, ref_date.month, 1)
                next_month == IF ref_date.month = 12
                              THEN date(ref_date.year + 1, 1, 1)
                              ELSE date(ref_date.year, ref_date.month + 1, 1)
            IN  <<start, PlusDays(next_month, -1)>>
      [] granularity = QUARTER ->
            LET quarter == QuarterOf(ref_date.month)
                first_month == 3 * (quarter - 1) + 1
                start == date(ref_date.year, first_month, 1)
                next_q_start == IF quarter = 4
                                THEN date(ref_date.year + 1, 1, 1)
                                ELSE date(ref_date.year, first_month + 3, 1)
            IN  <<start, PlusDays(next_q_start, -1)>>
      [] granularity = YEAR ->
            <<date(ref_date.year, 1, 1), PlusDays(date(ref_date.year + 1, 1, 1), -1)>>

build_output_path(config) ==
    [dir |-> config.output_dir,
     filename |-> <<"sales_products_", config.granularity, "_">>
                  \o build_suffix(config.ref_date, config.granularity)
                  \o <<".", config.output_format>>]

(***************************************************************************)
(* Tables.  A DataFrame is [cols, rows]: the set of its column names and   *)
(* the sequence of its rows; a row is a record, and the field of a column  *)
(* the table does not have holds the missing value.                        *)
(***************************************************************************)
SalesCols == {"product_id", "price", "quantity", "sold_at", "order_id"}
ProductCols == {"product_id", "product_name", "category", "brand", "condition"}
BaseCols == SalesCols \cup ProductCols
DerivedCols == {"sale_date", "year", "month", "quarter", "processed_at"}

DataFrame(cols, rows) == [cols |-> cols, rows |-> rows]
empty(df) == Len(df.rows) = 0 \/ df.cols = {}

RECURSIVE SelectRows(_, _)
SelectRows(rows, mask) ==
    IF rows = <<>> THEN <<>>
    ELSE (IF Head(mask) THEN <<Head(rows)>> ELSE <<>>) \o SelectRows(Tail(rows), Tail(mask))

(***************************************************************************)
(* sold_at values.  A timestamp is a wall-clock date and hour with its UTC *)
(* offset in hours (0 for "Z" and for a naive value, which utc=True reads  *)
(* as UTC); NaT is the missing timestamp; BadTs is a value that cannot be  *)
(* parsed as a timestamp.                                                  *)
(***************************************************************************)
NoDate == date(0, 0, 0)
Timestamp(d, h, tz) == [kind |-> "ts", date |-> d, hour |-> h, tz |-> tz]
NaT == [kind |-> "NaT", date |-> NoDate, hour |-> 0, tz |-> 0]
BadTs == [kind |-> "bad", date |-> NoDate, hour |-> 0, tz |-> 0]

\* tz_convert("UTC"): the same instant on the UTC clock
ToUTC(ts) ==
    LET h == ts.hour - ts.tz
    IN  IF h < 0 THEN Timestamp(PlusDays(ts.date, -1), h + 24, 0)
        ELSE IF h >= 24 THEN Timestamp(PlusDays(ts.date, 1), h - 24, 0)
        ELSE Timestamp(ts.date, h, 0)

\* to_datetime that moves the clock to UTC but keeps the offset of the value
to_datetime_keeps_offset(v) ==
    IF v.kind = "ts" THEN [ToUTC(v) EXCEPT !.tz = v.tz] ELSE NaT

\* pd.to_datetime(value, utc=True) on one value that can be parsed
to_datetime(v) == IF v.kind = "ts" THEN ToUTC(v) ELSE NaT

\* the mask with MONTH comparing the month alone
DateMask_month_only(sold_at, ref_date, granularity) ==
    /\ sold_at.kind = "ts"
    /\ CASE granularity = DAY -> sold_at.date = ref_date
         [] granularity = MONTH -> sold_at.date.month = ref_date.month
         [] granularity = QUARTER ->
               /\ sold_at.date.year = ref_date.year
               /\ QuarterOf(sold_at.date.month) = QuarterOf(ref_date.month)
         [] granularity = YEAR -> sold_at.date.year = ref_date.year

\* the mask of filter_sales_by_date on one normalized sold_at (NaT compares False)
DateMask(sold_at, ref_date, granularity) ==
    /\ sold_at.kind = "ts"
    /\ CASE granularity = DAY -> sold_at.date = ref_date
         [] granularity = MONTH ->
               sold_at.date.year = ref_date.year /\ sold_at.date.month = ref_date.month
         [] granularity = QUARTER ->
               /\ sold_at.date.year = ref_date.year
               /\ QuarterOf(sold_at.date.month) = QuarterOf(ref_date.month)
         [] granularity = YEAR -> sold_at.date.year = ref_date.year

\* The outcome of a call: what it raised ("none" when it returned) and its value.
Returned(v) == [raised |-> "none", value |-> v]
Raised(kind, v) == [raised |-> kind, value |-> v]

filter_sales_by_date(sales_df, ref_date, granularity) ==
    IF empty(sales_df) THEN Returned(sales_df)
    ELSE IF "sold_at" \notin sales_df.cols THEN Raised("KeyError", sales_df)
    ELSE IF \E k \in 1 .. Len(sales_df.rows) : sales_df.rows[k].sold_at.kind = "bad"
         THEN Raised("ValueError", sales_df)
    ELSE LET rows == [k \in 1 .. Len(sales_df.rows) |->
                         [sales_df.rows[k] EXCEPT !.sold_at = to_datetime(@)]]
             mask == [k \in 1 .. Len(rows) |-> DateMask(rows[k].sold_at, ref_date, granularity)]
         IN  Returned(DataFrame(sales_df.cols, SelectRows(rows, mask)))

(***************************************************************************)
(* State.                                                                  *)
(*   config              the PipelineConfig of the run                     *)
(*   bq_table, bucket    the remote sources: the products table, and the   *)
(*                       blobs of the bucket (day -> content of            *)
(*                       sales_<day>.parquet, for the days that have one)  *)
(*   pc                  the position of the run                           *)
(*   products_df, sorted_df, sales_df, filtered_sales_df, merged_df        *)
(*                       the locals of run_pipeline (sorted_df is the      *)
(*                       intermediate value of sort_values at the dedup)   *)
(*   start_date, end_date, max_files, i, frames                            *)
(*                       the parameters and locals of load_sales_parquet   *)
(*   queries, downloads, listings, listing                                 *)
(*                       the remote calls issued so far: catalog queries,  *)
(*                       the days whose blob download was attempted (in    *)
(*                       order, each with its outcome), the number of      *)
(*                       diagnostic listings and the outcome of the latest *)
(*   stages              the stages of run_pipeline completed so far, in   *)
(*                       order (what its log shows)                        *)
(*   dirs, exports       the directories made and the files written        *)
(*   error               the exception that ended the call, "none" if none *)
(*   output_path         the value returned by run_pipeline                *)
(***************************************************************************)
VARIABLES pc, config, bq_table, bucket,
          products_df, sorted_df, sales_df, filtered_sales_df, merged_df,
          start_date, end_date, max_files, i, frames,
          queries, downloads, listings, listing, stages, dirs, exports, error, output_path

vars == <<pc, config, bq_table, bucket,
          products_df, sorted_df, sales_df, filtered_sales_df, merged_df,
          start_date, end_date, max_files, i, frames,
          queries, downloads, listings, listing, stages, dirs, exports, error, output_path>>

worldVars == <<bq_table, bucket>>
tableVars == <<products_df, sorted_df, sales_df, filtered_sales_df, merged_df>>
loaderVars == <<start_date, end_date, max_files, i, frames>>
callVars == <<queries, downloads, listings, listing>>
outVars == <<stages, dirs, exports, output_path>>

NoTable == DataFrame({}, <<>>)
NoPath == [dir |-> "", filename |-> <<>>]

\* Optional values: None, or a value
Some(v) == [is_none |-> FALSE, value |-> v]
NoneOf(v) == [is_none |-> TRUE, value |-> v]

PipelineConfig(ref_date, granularity, brands, product_ids, output_format, max_sales_files) ==
    [ref_date |-> ref_date, granularity |-> granularity,
     brands |-> brands, product_ids |-> product_ids,
     output_dir |-> "data/export", output_format |-> output_format,
     max_sales_files |-> max_sales_files]

\* A configuration in which only the reference date and the granularity vary.
DatedConfig(ref_date, granularity) ==
    PipelineConfig(ref_date, granularity, NoneOf(<<>>), NoneOf(<<>>), "parquet", 500)

\* Nothing has run yet (the parameters of a call are set by each specification).
NothingDone ==
    /\ i = 0 /\ frames = <<>>
    /\ queries = 0 /\ downloads = <<>> /\ listings = 0 /\ listing = "none"
    /\ stages = <<>> /\ dirs = {} /\ exports = <<>> /\ error = "none" /\ output_path = NoPath

Fresh ==
    /\ products_df = NoTable /\ sorted_df = NoTable
    /\ filtered_sales_df = NoTable /\ merged_df = NoTable
    /\ NothingDone

(***************************************************************************)
(* The granularity calendar on its own: _compute_date_range and            *)
(* _build_output_path applied to every reference date and granularity.     *)
(***************************************************************************)
InitCalendar ==
    /\ pc = "calendar"
    /\ \E d \in Dates, g \in TimeGranularity : config = DatedConfig(d, g)
    /\ bq_table = NoTable /\ bucket = <<>>
    /\ sales_df = NoTable
    /\ start_date = NoDate /\ end_date = NoDate /\ max_files = NoneOf(0)
    /\ Fresh

CallCalendar ==
    /\ pc = "calendar"
    /\ LET range == compute_date_range(config.ref_date, config.granularity)
       IN  start_date' = range[1] /\ end_date' = range[2]
    /\ output_path' = build_output_path(config)
    /\ pc' = "calendar_done"
    /\ UNCHANGED <<config, worldVars, tableVars, max_files, i, frames, callVars,
                   stages, dirs, exports, error>>

NextCalendar == CallCalendar

SpecCalendar == InitCalendar /\ [][NextCalendar]_vars

\* The first and the last day of every month: the days next to a period boundary.
PeriodEdges == { d \in Dates : d.day \in {1, DaysInMonth(d.year, d.month)} }

\* C10: for every granularity and reference date, the computed range is an
\* inclusive range that contains the reference date, and another reference date
\* gets the same suffix (hence the same export file name) exactly when it gets
\* the same range.
RangeAndSuffixAgree ==
    pc = "calendar_done" =>
        /\ DateLe(start_date, config.ref_date)
        /\ DateLe(config.ref_date, end_date)
        /\ \A d2 \in PeriodEdges \cup {config.ref_date} :
              /\ (build_suffix(d2, config.granularity)
                      = build_suffix(config.ref_date, config.granularity))
                 <=> (compute_date_range(d2, config.granularity) = <<start_date, end_date>>)
              /\ (build_output_path(DatedConfig(d2, config.granularity)) = output_path)
                 <=> (compute_date_range(d2, config.granularity) = <<start_date, end_date>>)

\* C10 witness: a date in the middle of Q1 2025 gets the range Jan 1 .. Mar 31 and
\* the file name of Q1, which the first day of Q2 does not get.
RangeAndSuffixWitness ==
    /\ pc = "calendar_done"
    /\ config.granularity = QUARTER
    /\ config.ref_date = date(2025, 2, 14)
    /\ start_date = date(2025, 1, 1) /\ end_date = date(2025, 3, 31)
    /\ output_path.filename = <<"sales_products_", "quarter", "_",
                                "2", "0", "2", "5", "-", "Q", "1", ".", "parquet">>
    /\ build_suffix(date(2025, 4, 1), QUARTER) # build_suffix(config.ref_date, QUARTER)

(***************************************************************************)
(* The temporal filter on its own: filter_sales_by_date applied to a sales *)
(* table, and applied again to its own result.                             *)
(***************************************************************************)
SeqsUpTo(S, n) == UNION { [1 .. k -> S] : k \in 0 .. n }

SaleRow(product_id, sold_at, order_id) ==
    [product_id |-> product_id, price |-> 10, quantity |-> 1,
     sold_at |-> sold_at, order_id |-> order_id]

\* Days on both sides of a month, a quarter and a year boundary, and a day of the
\* same month a year before, at the start and at the end of the day, on the UTC
\* clock and on clocks behind and ahead of it.
BoundaryDates == {date(2024, 1, 31), date(2024, 12, 31), date(2025, 1, 1), date(2025, 1, 31),
                  date(2025, 2, 1), date(2025, 3, 31), date(2025, 4, 1)}
Clocks == {<<0, 0>>, <<23, -5>>, <<0, 5>>}
FilterTimestamps == { Timestamp(d, c[1], c[2]) : d \in BoundaryDates, c \in Clocks } \cup {NaT}
FilterRefDates == {date(2024, 12, 31), date(2025, 1, 1), date(2025, 1, 31), date(2025, 3, 31)}
FilterTables ==
    { DataFrame(SalesCols, rows) :
        rows \in SeqsUpTo({ SaleRow("A", t, "O1") : t \in FilterTimestamps }, MaxRows) }

InitFilter ==
    /\ pc = "filter"
    /\ \E d \in FilterRefDates, g \in TimeGranularity : config = DatedConfig(d, g)
    /\ bq_table = NoTable /\ bucket = <<>>
    /\ sales_df \in FilterTables
    /\ start_date = NoDate /\ end_date = NoDate /\ max_files = NoneOf(0)
    /\ Fresh

CallFilter ==
    /\ pc = "filter"
    /\ LET r == filter_sales_by_date(sales_df, config.ref_date, config.granularity)
       IN  filtered_sales_df' = r.value /\ error' = r.raised
    /\ pc' = "filtered"
    /\ UNCHANGED <<config, worldVars, products_df, sorted_df, sales_df, merged_df,
                   loaderVars, callVars, outVars>>

\* the result is filtered again with the same parameters
CallFilterAgain ==
    /\ pc = "filtered" /\ error = "none"
    /\ sales_df' = filtered_sales_df
    /\ LET r == filter_sales_by_date(filtered_sales_df, config.ref_date, config.granularity)
       IN  filtered_sales_df' = r.value /\ error' = r.raised
    /\ pc' = "refiltered"
    /\ UNCHANGED <<config, worldVars, products_df, sorted_df, merged_df,
                   loaderVars, callVars, outVars>>

NextFilter == CallFilter \/ CallFilterAgain

SpecFilter == InitFilter /\ [][NextFilter]_vars

\* The instant of a timestamp in hours, and its date and hour on the UTC clock.
InstantOf(ts) == toordinal(ts.date) * 24 + ts.hour - ts.tz
UtcDateOf(ts) == fromordinal(InstantOf(ts) \div 24)
UtcHourOf(ts) == InstantOf(ts) % 24

\* The granularity predicate of the temporal filter, on the UTC date of a sale.
InPeriod(d, ref_date, granularity) ==
    \/ granularity = DAY /\ d = ref_date
    \/ granularity = MONTH /\ d.year = ref_date.year /\ d.month = ref_date.month
    \/ /\ granularity = QUARTER /\ d.year = ref_date.year
       /\ \E q \in 1 .. 4 : {d.month, ref_date.month} \subseteq (3 * q - 2) .. (3 * q)
    \/ granularity = YEAR /\ d.year = ref_date.year

RowMatches(row, ref_date, granularity) ==
    row.sold_at.kind = "ts" /\ InPeriod(UtcDateOf(row.sold_at), ref_date, granularity)

\* the rows of a table that match, in their order, each with its sold_at in UTC
MatchingRows(rows, ref_date, granularity) ==
    LET Keep(row) == RowMatches(row, ref_date, granularity)
        kept == SelectSeq(rows, Keep)
    IN  [k \in 1 .. Len(kept) |->
            [kept[k] EXCEPT !.sold_at =
                Timestamp(UtcDateOf(kept[k].sold_at), UtcHourOf(kept[k].sold_at), 0)]]

\* C5: on a non-empty sales table the filter returns exactly the rows whose UTC
\* sold_at satisfies the granularity predicate, in their original order.
FilterKeepsExactlyMatching ==
    (pc = "filtered" /\ ~empty(sales_df)) =>
        /\ error = "none"
        /\ filtered_sales_df.cols = sales_df.cols
        /\ filtered_sales_df.rows
               = MatchingRows(sales_df.rows, config.ref_date, config.granularity)

\* C5 witness: two sales of one table, 2025-01-31 23:00 at UTC-5 (February in
\* UTC) and 2025-01-01 00:00Z, filtered by MONTH for January: only the second
\* remains.
FilterKeepsWitness ==
    /\ pc = "filtered"
    /\ config.granularity = MONTH /\ config.ref_date = date(2025, 1, 31)
    /\ sales_df.rows = <<SaleRow("A", Timestamp(date(2025, 1, 31), 23, -5), "O1"),
                         SaleRow("A", Timestamp(date(2025, 1, 1), 0, 0), "O1")>>
    /\ filtered_sales_df.rows = <<SaleRow("A", Timestamp(date(2025, 1, 1), 0, 0), "O1")>>

\* C6: filtering the result of the filter again with the same parameters gives
\* the same table, also when the input or the result is empty.
FilterIdempotent ==
    pc = "refiltered" => (error = "none" /\ filtered_sales_df = sales_df)

\* C6 witness: a sale of 2024-12-31 23:00 at UTC-5 passed the DAY filter for
\* 2025-01-01 (04:00 UTC), and filtering the result again left it as it was.
FilterIdempotentWitness ==
    /\ pc = "refiltered"
    /\ config.granularity = DAY /\ config.ref_date = date(2025, 1, 1)
    /\ Len(sales_df.rows) = 1
    /\ sales_df.rows[1].sold_at = Timestamp(date(2025, 1, 1), 4, 0)
    /\ filtered_sales_df = sales_df

(***************************************************************************)
(* load_sales_parquet.  The bucket holds a blob for some days; a blob is   *)
(* a Parquet table or bytes that do not decode.  A download can also fail  *)
(* for a reason of the moment (an API error, or any other exception), and  *)
(* so can the diagnostic listing that follows a missing blob.              *)
(***************************************************************************)
Parquet(cols, rows) == [corrupt |-> FALSE, cols |-> cols, rows |-> rows]
Corrupt == [corrupt |-> TRUE, cols |-> {}, rows |-> <<>>]

ExceptionKinds == {"GoogleAPIError", "Exception"}

\* except DataLoadError also catches its subclass TooManyFilesError
IsDataLoadError(e) == e \in {"DataLoadError", "TooManyFilesError"}

\* num_days with the + 1 forgotten
num_days_exclusive(start, end) == toordinal(end) - toordinal(start)

\* (end_date - start_date).days + 1
num_days(start, end) == toordinal(end) - toordinal(start) + 1

\* pd.concat(frames, ignore_index=True)
RECURSIVE ConcatRows(_)
ConcatRows(fs) == IF fs = <<>> THEN <<>> ELSE Head(fs).rows \o ConcatRows(Tail(fs))

\* concat that puts the latest table first
concat_newest_first(fs) ==
    LET rev == [k \in 1 .. Len(fs) |-> fs[Len(fs) + 1 - k]]
    IN  DataFrame(UNION { fs[k].cols : k \in 1 .. Len(fs) }, ConcatRows(rev))

concat(fs) == DataFrame(UNION { fs[k].cols : k \in 1 .. Len(fs) }, ConcatRows(fs))

Download(day, outcome) == [day |-> day, outcome |-> outcome]

current_date == PlusDays(start_date, i)

\* gcs_client.py 104-125: the checks made before any blob is touched
LoadSalesCheck ==
    /\ pc = "load_sales"
    /\ IF DateLt(end_date, start_date)
       THEN /\ error' = "ValueError" /\ pc' = "failed"
            /\ UNCHANGED <<i, frames>>
       ELSE IF ~max_files.is_none /\ num_days(start_date, end_date) > max_files.value
       THEN /\ error' = "TooManyFilesError" /\ pc' = "failed"
            /\ UNCHANGED <<i, frames>>
       ELSE /\ pc' = "fetch" /\ i' = 0 /\ frames' = <<>>
            /\ UNCHANGED error
    /\ UNCHANGED <<config, worldVars, tableVars, start_date, end_date, max_files,
                   callVars, outVars>>

\* one iteration whose blob is downloaded and decoded
FetchDay ==
    /\ pc = "fetch" /\ i < num_days(start_date, end_date)
    /\ current_date \in DOMAIN bucket /\ ~bucket[current_date].corrupt
    /\ downloads' = Append(downloads, Download(current_date, "found"))
    /\ frames' = Append(frames, DataFrame(bucket[current_date].cols, bucket[current_date].rows))
    /\ i' = i + 1
    /\ UNCHANGED <<pc, config, worldVars, tableVars, start_date, end_date, max_files,
                   queries, listings, listing, outVars, error>>

\* one iteration whose blob is downloaded but is no Parquet file
FetchDayUnreadable ==
    /\ pc = "fetch" /\ i < num_days(start_date, end_date)
    /\ current_date \in DOMAIN bucket /\ bucket[current_date].corrupt
    /\ downloads' = Append(downloads, Download(current_date, "unreadable"))
    /\ error' = "DataLoadError" /\ pc' = "failed"
    /\ UNCHANGED <<config, worldVars, tableVars, loaderVars, queries, listings, listing, outVars>>

\* one iteration whose download raises something other than NotFound
FetchDayFails ==
    /\ pc = "fetch" /\ i < num_days(start_date, end_date)
    /\ \E exc \in ExceptionKinds :
          downloads' = Append(downloads, Download(current_date, exc))
    /\ error' = "DataLoadError" /\ pc' = "failed"
    /\ UNCHANGED <<config, worldVars, tableVars, loaderVars, queries, listings, listing, outVars>>

\* one iteration whose blob does not exist: NotFound, then
\* _debug_list_nearby_sales_files, which swallows a GoogleAPIError of the listing
FetchDayNotFound ==
    /\ pc = "fetch" /\ i < num_days(start_date, end_date)
    /\ current_date \notin DOMAIN bucket
    /\ downloads' = Append(downloads, Download(current_date, "NotFound"))
    /\ listings' = listings + 1
    /\ \E outcome \in {"listed"} \cup ExceptionKinds :
          /\ listing' = outcome
          /\ IF outcome = "Exception"
             THEN error' = "Exception" /\ pc' = "failed" /\ i' = i
             ELSE i' = i + 1 /\ UNCHANGED <<pc, error>>
    /\ UNCHANGED <<config, worldVars, tableVars, start_date, end_date, max_files, frames,
                   queries, outVars>>

\* gcs_client.py 160-176: after the last day
LoadSalesReturn ==
    /\ pc = "fetch" /\ i = num_days(start_date, end_date)
    /\ sales_df' = IF frames = <<>> THEN DataFrame({}, <<>>) ELSE concat(frames)
    /\ pc' = "sales_loaded"
    /\ UNCHANGED <<config, worldVars, products_df, sorted_df, filtered_sales_df, merged_df,
                   loaderVars, callVars, outVars, error>>

LoadSales ==
    \/ LoadSalesCheck
    \/ FetchDay
    \/ FetchDayUnreadable
    \/ FetchDayFails
    \/ FetchDayNotFound
    \/ LoadSalesReturn

(***************************************************************************)
(* The sales loader on its own: every range over a few consecutive days    *)
(* (end before start included), every max_files, every bucket.             *)
(***************************************************************************)
MaxDays == 3

LoaderDates == { PlusDays(date(2025, 1, 31), k) : k \in 0 .. (MaxDays - 1) }
LoaderRows == <<SaleRow("A", Timestamp(date(2025, 1, 31), 10, 0), "O1"),
                SaleRow("B", Timestamp(date(2025, 2, 1), 11, 0), "O2")>>
LoaderFiles == {Corrupt, Parquet(SalesCols, <<>>), Parquet(SalesCols, <<LoaderRows[1]>>),
                Parquet(SalesCols, <<LoaderRows[2], LoaderRows[1]>>)}
Buckets(days, files) == UNION { [S -> files] : S \in SUBSET days }

InitLoader ==
    /\ pc = "load_sales"
    /\ config = DatedConfig(date(2025, 1, 31), DAY)
    /\ bq_table = NoTable
    /\ bucket \in Buckets(LoaderDates, LoaderFiles)
    /\ sales_df = NoTable
    /\ start_date \in LoaderDates /\ end_date \in LoaderDates
    /\ max_files \in {NoneOf(0)} \cup { Some(n) : n \in 1 .. MaxDays }
    /\ Fresh

NextLoader == LoadSales

SpecLoader == InitLoader /\ [][NextLoader]_vars

\* The days of the inclusive range [start, end], in ascending order.
RangeDays(start, end) ==
    [k \in 1 .. (toordinal(end) - toordinal(start) + 1) |-> fromordinal(toordinal(start) + k - 1)]

\* C1: when the inclusive range spans more days than max_files, the load never
\* gets past its check: it fails with TooManyFilesError, a DataLoadError, and no
\* blob has been asked for; when the range fits, that error is not raised.
TooManyFilesBeforeAnyFetch ==
    (DateLe(start_date, end_date) /\ ~max_files.is_none) =>
        IF Len(RangeDays(start_date, end_date)) > max_files.value
        THEN /\ pc \in {"load_sales", "failed"}
             /\ pc = "failed" => (error = "TooManyFilesError" /\ IsDataLoadError(error))
             /\ downloads = <<>> /\ listings = 0
        ELSE error # "TooManyFilesError"

\* C1 witness: a range of three days against max_files = 2 has failed, and a
\* range of two days against the same bound has been loaded.
TooManyFilesWitness ==
    /\ pc = "failed" /\ error = "TooManyFilesError"
    /\ max_files = Some(2)
    /\ start_date = date(2025, 1, 31) /\ end_date = date(2025, 2, 2)
    /\ downloads = <<>>

\* The rows of the blobs of the given days, in the order of the days.
RECURSIVE RowsOfDays(_)
RowsOfDays(days) ==
    IF days = <<>> THEN <<>>
    ELSE (IF Head(days) \in DOMAIN bucket THEN bucket[Head(days)].rows ELSE <<>>)
         \o RowsOfDays(Tail(days))

\* C2: a day without a blob is skipped and the load goes on; the first day whose
\* download or decoding fails otherwise ends the load with DataLoadError, no
\* later day being fetched; with no such day the load returns the rows of the
\* found days.
NotFoundSkippedOtherErrorsFatal ==
    LET days == RangeDays(start_date, end_date)
        n == Len(downloads)
        Benign(k) == downloads[k].outcome \in {"found", "NotFound"}
    IN  (pc \in {"fetch", "sales_loaded", "failed"} /\ error # "TooManyFilesError"
            /\ error # "ValueError") =>
        /\ n <= Len(days) /\ \A k \in 1 .. n : downloads[k].day = days[k]
        /\ \A k \in 1 .. n :
              /\ downloads[k].outcome = "NotFound" => days[k] \notin DOMAIN bucket
              /\ downloads[k].outcome = "found" => days[k] \in DOMAIN bucket
        /\ pc = "fetch" => (i = n /\ \A k \in 1 .. n : Benign(k))
        /\ pc = "failed" =>
              /\ n >= 1 /\ ~Benign(n) /\ \A k \in 1 .. (n - 1) : Benign(k)
              /\ error = "DataLoadError"
        /\ pc = "sales_loaded" =>
              /\ n = Len(days) /\ \A k \in 1 .. n : Benign(k)
              /\ sales_df.rows = RowsOfDays(days)

(***************************************************************************)
(* The stages of run_pipeline, as operators on tables.                     *)
(***************************************************************************)
ProductRow(product_id, product_name, brand) ==
    [product_id |-> product_id, product_name |-> product_name,
     category |-> "phones", brand |-> brand, condition |-> "new"]

\* The order of the strings that are sorted: product ids and order ids.
StrOrder == <<"A", "B", "C", "O1", "O2", "O3">>
Rank(str) == CHOOSE k \in 1 .. Len(StrOrder) : StrOrder[k] = str

Perms(n) == { p \in [1 .. n -> 1 .. n] : \A a, b \in 1 .. n : a # b => p[a] # p[b] }

\* sort_values on one column (kind="quicksort", which is not stable): every
\* ascending arrangement of the rows, missing keys last.
SortOutcomes(rows, keys) ==
    { [k \in 1 .. Len(rows) |-> rows[p[k]]] :
        p \in { q \in Perms(Len(rows)) :
                  \A k \in 1 .. (Len(rows) - 1) : keys[q[k]] <= keys[q[k + 1]] } }

\* pipeline.py 196-205: the product rows with a NULL product_id are dropped
drop_null_product_id(df) ==
    LET NotNull(row) == row.product_id # Null
    IN  DataFrame(df.cols, SelectSeq(df.rows, NotNull))

\* Series.is_unique
is_unique(rows) ==
    \A a, b \in 1 .. Len(rows) : a # b => rows[a].product_id # rows[b].product_id

\* drop_duplicates that keeps every row
drop_duplicates_keeps_all(rows) == rows

\* drop_duplicates(subset="product_id", keep="last")
drop_duplicates(rows) ==
    LET last == { k \in 1 .. Len(rows) :
                    \A j \in (k + 1) .. Len(rows) : rows[j].product_id # rows[k].product_id }
        mask == [k \in 1 .. Len(rows) |-> k \in last]
    IN  SelectRows(rows, mask)

ProductIdKey(row) == IF row.product_id = Null THEN Len(StrOrder) + 1 ELSE Rank(row.product_id)

\* pipeline.py 271: the values sort_values("product_id") can give
SortedCatalogs(df) ==
    { DataFrame(df.cols, rows) : rows \in SortOutcomes(df.rows, [k \in 1 .. Len(df.rows) |-> ProductIdKey(df.rows[k])]) }

NoProduct == [product_name |-> Null, category |-> Null, brand |-> Null, condition |-> Null]
ProductFields(row) ==
    [product_name |-> row.product_name, category |-> row.category,
     brand |-> row.brand, condition |-> row.condition]

\* merge that is an inner join: a sale without product is dropped
merge_inner(left, right) ==
    IF ~is_unique(right.rows) THEN Raised("MergeError", NoTable)
    ELSE LET Matched(row) == \E j \in 1 .. Len(right.rows) :
                                 right.rows[j].product_id = row.product_id
             kept == SelectSeq(left.rows, Matched)
         IN  Returned(DataFrame(left.cols \cup right.cols,
                 [k \in 1 .. Len(kept) |->
                     kept[k] @@ ProductFields(
                         right.rows[CHOOSE j \in 1 .. Len(right.rows) :
                                        right.rows[j].product_id = kept[k].product_id])]))

\* left.merge(right, on="product_id", how="left", validate="many_to_one")
merge(left, right) ==
    IF ~is_unique(right.rows) THEN Raised("MergeError", NoTable)
    ELSE LET Matches(row) == { j \in 1 .. Len(right.rows) :
                                  right.rows[j].product_id = row.product_id }
             Joined(row) == IF Matches(row) = {} THEN row @@ NoProduct
                            ELSE row @@ ProductFields(right.rows[CHOOSE j \in Matches(row) : TRUE])
         IN  Returned(DataFrame(left.cols \cup right.cols,
                                [k \in 1 .. Len(left.rows) |-> Joined(left.rows[k])]))

\* the truth value of an Optional[Sequence]: None and the empty list are false
Truthy(opt) == ~opt.is_none /\ Len(opt.value) > 0
Items(seq) == { seq[k] : k \in 1 .. Len(seq) }

\* df[df[column].isin(values)]
brand_isin(df, values) ==
    LET In(row) == row.brand \in Items(values) IN DataFrame(df.cols, SelectSeq(df.rows, In))
product_id_isin(df, values) ==
    LET In(row) == row.product_id \in Items(values) IN DataFrame(df.cols, SelectSeq(df.rows, In))

\* the business filters joined by OR: a row passes when either list has it
business_filters_either(df, brands, product_ids) ==
    LET In(row) == \/ (Truthy(brands) /\ row.brand \in Items(brands.value))
                   \/ (Truthy(product_ids) /\ row.product_id \in Items(product_ids.value))
                   \/ (~Truthy(brands) /\ ~Truthy(product_ids))
    IN  DataFrame(df.cols, SelectSeq(df.rows, In))

\* pipeline.py 289-296
business_filters(df, brands, product_ids) ==
    LET by_brand == IF Truthy(brands) THEN brand_isin(df, brands.value) ELSE df
    IN  IF Truthy(product_ids) THEN product_id_isin(by_brand, product_ids.value) ELSE by_brand

\* an empty table with the sale columns only
empty_final_dataframe_sales_only == DataFrame(SalesCols, <<>>)

\* pipeline.py 101-115
empty_final_dataframe == DataFrame(BaseCols, <<>>)

\* pd.to_datetime(value, utc=True, errors="coerce")
to_datetime_coerce(v) == IF v.kind = "ts" THEN ToUTC(v) ELSE NaT

\* the derived columns of one row (sold_at already in UTC, or NaT).  With a NaT
\* in the column, dt.quarter is a column of floats, NaN for the NaT, and
\* astype(str) writes them as "1.0" and "nan".
Derived(sold_at, processed_at, as_float) ==
    IF sold_at.kind = "ts"
    THEN [sale_date |-> sold_at.date, year |-> Some(sold_at.date.year),
          month |-> Some(sold_at.date.month),
          quarter |-> <<"Q", DigitChar(QuarterOf(sold_at.date.month))>>
                      \o (IF as_float THEN <<".", "0">> ELSE <<>>),
          processed_at |-> processed_at]
    ELSE [sale_date |-> NoDate, year |-> NoneOf(0), month |-> NoneOf(0),
          quarter |-> <<"Q", "nan">>, processed_at |-> processed_at]

NoDerived(processed_at) ==
    [sale_date |-> NoDate, year |-> NoneOf(0), month |-> NoneOf(0),
     quarter |-> <<>>, processed_at |-> processed_at]

\* the order of sort_values(["sale_date", "order_id"]); missing keys sort last
AfterAnyDate == DaysBeforeYear(10000) + 1
SaleDateKey(row) == IF row.sale_date = NoDate THEN AfterAnyDate ELSE toordinal(row.sale_date)
OrderIdKey(row) == IF row.order_id = Null THEN Len(StrOrder) + 1 ELSE Rank(row.order_id)
DateOrderLe(r1, r2) ==
    \/ SaleDateKey(r1) < SaleDateKey(r2)
    \/ SaleDateKey(r1) = SaleDateKey(r2) /\ OrderIdKey(r1) <= OrderIdKey(r2)

\* sort_values on several columns (a lexsort, which is stable): each row is
\* inserted after the rows that are not greater.
RECURSIVE InsertByDateOrder(_, _)
InsertByDateOrder(sorted, row) ==
    IF sorted = <<>> THEN <<row>>
    ELSE IF DateOrderLe(Head(sorted), row)
         THEN <<Head(sorted)>> \o InsertByDateOrder(Tail(sorted), row)
         ELSE <<row>> \o sorted

RECURSIVE SortByDateOrder(_)
SortByDateOrder(rows) ==
    IF rows = <<>> THEN <<>>
    ELSE InsertByDateOrder(SortByDateOrder(SubSeq(rows, 1, Len(rows) - 1)), rows[Len(rows)])

\* _enrich_with_date_and_metadata: the values it can return
enrich_with_date_and_metadata(df, processed_at) ==
    IF empty(df)
    THEN { DataFrame(df.cols \cup {"sold_at"} \cup DerivedCols, df.rows) }
    ELSE LET any_nat == \E k \in 1 .. Len(df.rows) :
                            to_datetime_coerce(df.rows[k].sold_at) = NaT
             rows == IF "sold_at" \in df.cols
                     THEN [k \in 1 .. Len(df.rows) |->
                             LET sold_at == to_datetime_coerce(df.rows[k].sold_at)
                             IN  [df.rows[k] EXCEPT !.sold_at = sold_at]
                                 @@ Derived(sold_at, processed_at, any_nat)]
                     ELSE [k \in 1 .. Len(df.rows) |-> df.rows[k] @@ NoDerived(processed_at)]
             cols == df.cols \cup DerivedCols
         IN  IF "order_id" \in cols
             THEN { DataFrame(cols, SortByDateOrder(rows)) }
             ELSE { DataFrame(cols, sorted) : sorted \in SortOutcomes(rows, [k \in 1 .. Len(rows) |-> SaleDateKey(rows[k])]) }

(***************************************************************************)
(* run_pipeline, stage by stage.                                           *)
(***************************************************************************)
Stage(name) == stages' = Append(stages, name)

\* pipeline.py 189-193 and bq_client.py: the query, then the column check
LoadProducts ==
    /\ pc = "start"
    /\ queries' = queries + 1
    /\ \E outcome \in {"rows"} \cup ExceptionKinds :
          IF outcome # "rows"
          THEN /\ error' = "DataLoadError" /\ pc' = "failed"
               /\ UNCHANGED <<products_df, stages>>
          ELSE IF ProductCols \ bq_table.cols # {}
          THEN /\ error' = "DataQualityError" /\ pc' = "failed"
               /\ UNCHANGED <<products_df, stages>>
          ELSE /\ products_df' = bq_table /\ Stage("load_products")
               /\ pc' = "drop_null_products"
               /\ UNCHANGED error
    /\ UNCHANGED <<config, worldVars, sorted_df, sales_df, filtered_sales_df, merged_df,
                   loaderVars, downloads, listings, listing, dirs, exports, output_path>>

\* pipeline.py 195-205
DropNullProducts ==
    /\ pc = "drop_null_products"
    /\ products_df' = drop_null_product_id(products_df)
    /\ Stage("drop_null_products")
    /\ pc' = "date_range"
    /\ UNCHANGED <<config, worldVars, sorted_df, sales_df, filtered_sales_df, merged_df,
                   loaderVars, callVars, dirs, exports, output_path, error>>

\* pipeline.py 207-223: the range, and the call of load_sales_parquet
ComputeDateRange ==
    /\ pc = "date_range"
    /\ LET range == compute_date_range(config.ref_date, config.granularity)
       IN  start_date' = range[1] /\ end_date' = range[2]
    /\ max_files' = Some(config.max_sales_files)
    /\ Stage("date_range")
    /\ pc' = "load_sales"
    /\ UNCHANGED <<config, worldVars, tableVars, i, frames, callVars,
                   dirs, exports, output_path, error>>

\* pipeline.py 225-231: nothing was loaded
ExportEmptySales ==
    /\ pc = "sales_loaded" /\ empty(sales_df)
    /\ merged_df' = empty_final_dataframe
    /\ stages' = stages \o <<"load_sales", "no_sales">>
    /\ pc' = "enrich"
    /\ UNCHANGED <<config, worldVars, products_df, sorted_df, sales_df, filtered_sales_df,
                   loaderVars, callVars, dirs, exports, output_path, error>>

\* pipeline.py 232-245: the temporal filter, and the case that nothing passes it
FilterSales ==
    /\ pc = "sales_loaded" /\ ~empty(sales_df)
    /\ LET r == filter_sales_by_date(sales_df, config.ref_date, config.granularity)
       IN  IF r.raised # "none"
           THEN /\ error' = r.raised /\ pc' = "failed"
                /\ stages' = stages \o <<"load_sales">>
                /\ UNCHANGED <<filtered_sales_df, merged_df>>
           ELSE IF empty(r.value)
           THEN /\ filtered_sales_df' = r.value
                /\ merged_df' = empty_final_dataframe
                /\ stages' = stages \o <<"load_sales", "filter", "no_match">>
                /\ pc' = "enrich"
                /\ UNCHANGED error
           ELSE /\ filtered_sales_df' = r.value
                /\ stages' = stages \o <<"load_sales", "filter">>
                /\ pc' = "drop_null_sales"
                /\ UNCHANGED <<merged_df, error>>
    /\ UNCHANGED <<config, worldVars, products_df, sorted_df, sales_df,
                   loaderVars, callVars, dirs, exports, output_path>>

\* pipeline.py 247-254
DropNullSales ==
    /\ pc = "drop_null_sales"
    /\ filtered_sales_df' = drop_null_product_id(filtered_sales_df)
    /\ Stage("drop_null_sales")
    /\ pc' = "dedup"
    /\ UNCHANGED <<config, worldVars, products_df, sorted_df, sales_df, merged_df,
                   loaderVars, callVars, dirs, exports, output_path, error>>

\* pipeline.py 256-279
DedupProducts ==
    /\ pc = "dedup"
    /\ IF is_unique(products_df.rows)
       THEN UNCHANGED <<products_df, sorted_df>>
       ELSE \E sorted \in SortedCatalogs(products_df) :
               /\ sorted_df' = sorted
               /\ products_df' = DataFrame(sorted.cols, drop_duplicates(sorted.rows))
    /\ Stage("dedup")
    /\ pc' = "merge"
    /\ UNCHANGED <<config, worldVars, sales_df, filtered_sales_df, merged_df,
                   loaderVars, callVars, dirs, exports, output_path, error>>

\* pipeline.py 281-287
MergeSalesProducts ==
    /\ pc = "merge"
    /\ LET r == merge(filtered_sales_df, products_df)
       IN  IF r.raised # "none"
           THEN error' = r.raised /\ pc' = "failed" /\ UNCHANGED <<merged_df, stages>>
           ELSE /\ merged_df' = r.value /\ Stage("join")
                /\ pc' = "business_filters"
                /\ UNCHANGED error
    /\ UNCHANGED <<config, worldVars, products_df, sorted_df, sales_df, filtered_sales_df,
                   loaderVars, callVars, dirs, exports, output_path>>

\* pipeline.py 289-296
BusinessFilters ==
    /\ pc = "business_filters"
    /\ merged_df' = business_filters(merged_df, config.brands, config.product_ids)
    /\ Stage("business_filters")
    /\ pc' = "enrich"
    /\ UNCHANGED <<config, worldVars, products_df, sorted_df, sales_df, filtered_sales_df,
                   loaderVars, callVars, dirs, exports, output_path, error>>

\* the readings of the clock at pipeline.py 154
Clock == {Timestamp(date(2025, 2, 3), 6, 0), Timestamp(date(2025, 2, 3), 7, 0)}

\* pipeline.py 298
Enrich ==
    /\ pc = "enrich"
    /\ \E processed_at \in Clock :
          merged_df' \in enrich_with_date_and_metadata(merged_df, processed_at)
    /\ Stage("enrich")
    /\ pc' = "export"
    /\ UNCHANGED <<config, worldVars, products_df, sorted_df, sales_df, filtered_sales_df,
                   loaderVars, callVars, dirs, exports, output_path, error>>

ExportFile(path, format, df) ==
    [path |-> path, format |-> format, cols |-> df.cols, rows |-> df.rows]

\* pipeline.py 299-313
Export ==
    /\ pc = "export"
    /\ LET path == build_output_path(config)
       IN  /\ dirs' = dirs \cup {path.dir}
           /\ IF config.output_format \in {"parquet", "csv"}
              THEN /\ exports' = Append(exports, ExportFile(path, config.output_format, merged_df))
                   /\ output_path' = path
                   /\ Stage("export")
                   /\ pc' = "done"
                   /\ UNCHANGED error
              ELSE /\ error' = "ValueError" /\ pc' = "failed"
                   /\ UNCHANGED <<exports, output_path, stages>>
    /\ UNCHANGED <<config, worldVars, tableVars, loaderVars, callVars>>

Next ==
    \/ LoadProducts
    \/ DropNullProducts
    \/ ComputeDateRange
    \/ LoadSales
    \/ ExportEmptySales
    \/ FilterSales
    \/ DropNullSales
    \/ DedupProducts
    \/ MergeSalesProducts
    \/ BusinessFilters
    \/ Enrich
    \/ Export

(***************************************************************************)
(* Runs of the pipeline over every configuration, against a few catalogs   *)
(* and buckets.  The reference date is the last day of a month, so that    *)
(* the blobs of the last two days of the range are read at the end of the  *)
(* loop.                                                                   *)
(***************************************************************************)
DayLimit == 1
MonthLimit == 31

RunDate == date(2025, 1, 31)
DayBefore == date(2025, 1, 30)

Configs ==
    { PipelineConfig(RunDate, g, brands, product_ids, format, limit) :
        g \in TimeGranularity,
        brands \in {NoneOf(<<>>), Some(<<"BrandX">>)},
        product_ids \in {NoneOf(<<>>), Some(<<"A">>)},
        format \in {"parquet", "csv", "xml"},
        limit \in {DayLimit, MonthLimit} }

RunCatalogs ==
    { DataFrame(ProductCols, <<>>),
      DataFrame(ProductCols, <<ProductRow("A", "Prod A", "BrandX"),
                               ProductRow("B", "Prod B", "BrandY")>>),
      DataFrame(ProductCols, <<ProductRow("A", "Prod A", "BrandX"),
                               ProductRow(Null, "Prod N", "BrandY"),
                               ProductRow("A", "Prod A2", "BrandY")>>),
      DataFrame(ProductCols \ {"brand"}, <<>>) }

AtTen == Timestamp(RunDate, 10, 0)
RunBuckets ==
    { <<>>,
      (RunDate :> Parquet(SalesCols, <<>>)),
      (RunDate :> Parquet(SalesCols, <<SaleRow("A", AtTen, "O2"),
                                       SaleRow("B", Timestamp(RunDate, 11, 0), "O1")>>)),
      (DayBefore :> Parquet(SalesCols, <<SaleRow("C", Timestamp(RunDate, 9, 0), "O3"),
                                         SaleRow("A", Timestamp(DayBefore, 9, 0), "O1")>>))
         @@ (RunDate :> Parquet(SalesCols, <<SaleRow("A", Timestamp(RunDate, 23, -5), "O2")>>)),
      (RunDate :> Corrupt),
      (RunDate :> Parquet(SalesCols \ {"order_id"},
                          <<SaleRow("A", AtTen, Null),
                            SaleRow("B", Timestamp(DayBefore, 20, 0), Null)>>)),
      (RunDate :> Parquet(SalesCols, <<SaleRow(Null, AtTen, "O1")>>)),
      (RunDate :> Parquet(SalesCols, <<SaleRow("A", AtTen, "O1"), SaleRow("A", BadTs, "O2")>>)),
      (RunDate :> Parquet(SalesCols, <<SaleRow("A", NaT, "O1")>>)),
      (RunDate :> Parquet(SalesCols, <<SaleRow("B", NaT, "O1"), SaleRow("A", AtTen, "O2")>>)) }

Init ==
    /\ pc = "start"
    /\ config \in Configs
    /\ bq_table \in RunCatalogs
    /\ bucket \in RunBuckets
    /\ sales_df = NoTable
    /\ start_date = NoDate /\ end_date = NoDate /\ max_files = NoneOf(0)
    /\ Fresh

Spec == Init /\ [][Next]_vars

ExportCols == BaseCols \cup DerivedCols

HasStage(name) == \E k \in 1 .. Len(stages) : stages[k] = name

\* The run took the short cut of pipeline.py 225-231 or 240-245.
NoSalesInPeriod == HasStage("no_sales") \/ HasStage("no_match")

EmptyExportOrOnItsWay ==
    /\ pc \in {"enrich", "export", "done"} /\ error = "none"
    /\ pc = "enrich" => merged_df = DataFrame(BaseCols, <<>>)
    /\ pc = "export" => merged_df = DataFrame(ExportCols, <<>>)
    /\ pc = "done" => /\ Len(exports) = 1
                      /\ exports[1].rows = <<>> /\ exports[1].cols = ExportCols
                      /\ Cardinality(exports[1].cols) = 14

\* C3 as stated: whenever the sales load returns no row, or the temporal filter
\* keeps none, the run does not fail and its export has zero rows and the
\* fourteen export columns, whatever the configuration.
EmptySalesAlwaysExported == NoSalesInPeriod => EmptyExportOrOnItsWay

\* C3: in a run whose output format is parquet or csv, whenever the sales load
\* returns no row, or the temporal filter keeps none, the run does not fail and
\* its export has zero rows and the fourteen export columns.
EmptySalesExported ==
    (NoSalesInPeriod /\ config.output_format \in {"parquet", "csv"}) => EmptyExportOrOnItsWay

\* C3 witness: a month in which no day has a blob, exported as csv.
EmptySalesNoFileWitness ==
    /\ pc = "done" /\ HasStage("no_sales") /\ bucket = <<>>
    /\ config.granularity = MONTH /\ config.output_format = "csv"
    /\ Len(downloads) = 31 /\ exports[1].rows = <<>>

\* C4: a run that has succeeded has written exactly one file, at the computed
\* path, with the fourteen export columns, after every stage it went through; a
\* run that has failed has written none; and nothing is written before the end.
OneExportOrFailure ==
    /\ pc = "done" =>
          /\ error = "none" /\ Len(exports) = 1
          /\ exports[1].path = build_output_path(config) /\ output_path = exports[1].path
          /\ exports[1].cols = ExportCols
          /\ stages[Len(stages)] = "export"
          /\ HasStage("load_products") /\ HasStage("load_sales")
          /\ ~NoSalesInPeriod => (HasStage("filter") /\ HasStage("join")
                                     /\ HasStage("business_filters"))
    /\ pc = "failed" => (error # "none" /\ exports = <<>> /\ output_path = NoPath)
    /\ pc \notin {"done", "failed"} => (exports = <<>> /\ error = "none")

\* C4 witnesses: a run that has written its file after the join, and a run that
\* failed at the write and left a directory but no file.
OneExportWitness ==
    /\ pc = "done" /\ HasStage("join") /\ Len(exports) = 1 /\ Len(exports[1].rows) = 2
OneExportFailureWitness ==
    /\ pc = "failed" /\ error = "ValueError" /\ dirs # {} /\ exports = <<>>

(***************************************************************************)
(* Runs of one day with no business filter, over every small catalog and   *)
(* every small sales file of that day.                                     *)
(***************************************************************************)
MaxCatalog == 3

CatalogRows == {ProductRow("A", "P1", "BrandX"), ProductRow("A", "P2", "BrandY"),
                ProductRow("B", "P1", "BrandX"), ProductRow(Null, "P1", "BrandX")}
JoinSales == {SaleRow("A", AtTen, "O1"), SaleRow("C", AtTen, "O2"),
              SaleRow(Null, AtTen, "O3"), SaleRow("A", Timestamp(DayBefore, 9, 0), "O1")}

InitJoin ==
    /\ pc = "start"
    /\ config = DatedConfig(RunDate, DAY)
    /\ bq_table \in { DataFrame(ProductCols, rows) : rows \in SeqsUpTo(CatalogRows, MaxCatalog) }
    /\ bucket \in {<<>>, (RunDate :> Corrupt)}
                  \cup { (RunDate :> Parquet(SalesCols, rows)) : rows \in SeqsUpTo(JoinSales, MaxRows) }
    /\ sales_df = NoTable
    /\ start_date = NoDate /\ end_date = NoDate /\ max_files = NoneOf(0)
    /\ Fresh

SpecJoin == InitJoin /\ [][Next]_vars

RowsWithId(rows, id) == { k \in 1 .. Len(rows) : rows[k].product_id = id }
LoadedIds == { bq_table.rows[k].product_id : k \in 1 .. Len(bq_table.rows) } \ {Null}
IsPermutation(rows, of) ==
    /\ Len(rows) = Len(of)
    /\ \E p \in Perms(Len(of)) : \A k \in 1 .. Len(of) : rows[k] = of[p[k]]

\* C7: once the catalog has been deduplicated, it has no null product_id and
\* exactly one row per non-null id of the loaded catalog, so the join's
\* many-to-one check passes; the row of a duplicated id is a loaded row, the last
\* with that id in the catalog sorted ascending by product_id.
CatalogUniqueAtJoin ==
    HasStage("dedup") =>
        /\ \A k \in 1 .. Len(products_df.rows) : products_df.rows[k].product_id # Null
        /\ \A id \in LoadedIds : Cardinality(RowsWithId(products_df.rows, id)) = 1
        /\ \A k \in 1 .. Len(products_df.rows) : products_df.rows[k].product_id \in LoadedIds
        /\ merge(filtered_sales_df, products_df).raised = "none"
        /\ error # "MergeError"
        /\ \A id \in LoadedIds :
              Cardinality(RowsWithId(bq_table.rows, id)) > 1 =>
                 LET survivor == products_df.rows[CHOOSE k \in RowsWithId(products_df.rows, id) : TRUE]
                     same == RowsWithId(sorted_df.rows, id)
                     last == CHOOSE k \in same : \A j \in same : j <= k
                 IN  /\ IsPermutation(sorted_df.rows, SelectSeq(bq_table.rows,
                                          LAMBDA row : row.product_id # Null))
                     /\ \A k \in 1 .. (Len(sorted_df.rows) - 1) :
                           Rank(sorted_df.rows[k].product_id)
                              <= Rank(sorted_df.rows[k + 1].product_id)
                     /\ survivor = sorted_df.rows[last]
                     /\ \E k \in RowsWithId(bq_table.rows, id) : bq_table.rows[k] = survivor

\* C7 witness: the catalog was loaded with a null id and two rows of id A after
\* a row of id B, and the join has been made with one row of A left.
CatalogUniqueWitness ==
    /\ HasStage("join")
    /\ bq_table.rows = <<ProductRow("B", "P1", "BrandX"), ProductRow("A", "P1", "BrandX"),
                         ProductRow("A", "P2", "BrandY")>>
    /\ Len(products_df.rows) = 2 /\ products_df.rows[1].product_id = "A"

\* the sales rows that enter the join: those of the period, with a product_id
JoinInput ==
    SelectSeq(MatchingRows(sales_df.rows, config.ref_date, config.granularity),
              LAMBDA row : row.product_id # Null)
SaleFields(row) == [c \in SalesCols |-> row[c]]
CatalogFields(row) == [c \in ProductCols \ {"product_id"} |-> row[c]]

\* C8: the joined table has one row per sales row that enters the join, in
\* their order, with the sale's fields and the catalog fields of the one catalog
\* row of the same product_id, or null catalog fields when there is none; and
\* with no business filter the export has as many rows as entered the join.
LeftJoinKeepsEverySale ==
    /\ (HasStage("join") /\ pc = "business_filters") =>
          /\ Len(merged_df.rows) = Len(JoinInput)
          /\ \A k \in 1 .. Len(JoinInput) :
                LET sale == JoinInput[k]
                    found == RowsWithId(products_df.rows, sale.product_id)
                IN  /\ SaleFields(merged_df.rows[k]) = SaleFields(sale)
                    /\ Cardinality(found) <= 1
                    /\ \A j \in found :
                          CatalogFields(merged_df.rows[k]) = CatalogFields(products_df.rows[j])
                    /\ found = {} =>
                          \A c \in ProductCols \ {"product_id"} : merged_df.rows[k][c] = Null
    /\ (HasStage("join") /\ pc = "done" /\ ~Truthy(config.brands) /\ ~Truthy(config.product_ids)) =>
          Len(exports[1].rows) = Len(JoinInput)

\* C8 witness: a sale of a catalogued product and a sale of an unknown product
\* have been joined, the second with null catalog fields, and exported.
LeftJoinWitness ==
    /\ pc = "done" /\ HasStage("join")
    /\ Len(JoinInput) = 2 /\ JoinInput[1].product_id = "A" /\ JoinInput[2].product_id = "C"
    /\ Len(sales_df.rows) = 2
    /\ Len(exports[1].rows) = 2
    /\ \E k \in 1 .. 2 : exports[1].rows[k].product_id = "C" /\ exports[1].rows[k].brand = Null
    /\ \E k \in 1 .. 2 : exports[1].rows[k].product_id = "A" /\ exports[1].rows[k].brand # Null

(***************************************************************************)
(* The join and the business filters of pipeline.py 281-296, over every    *)
(* pair of allow-lists, the empty list included.                           *)
(***************************************************************************)
MaxList == 2

BizCatalog == DataFrame(ProductCols, <<ProductRow("A", "P1", "BrandX"),
                                       ProductRow("B", "P2", "BrandY"),
                                       ProductRow("C", "P3", Null)>>)
BizSales == { SaleRow(id, AtTen, "O1") : id \in {"A", "B", "C", "D"} }
AllowLists(S) == {NoneOf(<<>>)} \cup { Some(list) : list \in SeqsUpTo(S, MaxList) }

InitBiz ==
    /\ pc = "merge"
    /\ \E brands \in AllowLists({"BrandX", "BrandY"}), product_ids \in AllowLists({"A", "D"}) :
          config = PipelineConfig(RunDate, DAY, brands, product_ids, "parquet", 500)
    /\ bq_table = BizCatalog /\ bucket = <<>>
    /\ sales_df = NoTable
    /\ start_date = NoDate /\ end_date = NoDate /\ max_files = NoneOf(0)
    /\ products_df = BizCatalog /\ sorted_df = NoTable
    /\ filtered_sales_df \in { DataFrame(SalesCols, rows) : rows \in SeqsUpTo(BizSales, MaxRows) }
    /\ merged_df = NoTable
    /\ NothingDone

NextBiz == MergeSalesProducts \/ BusinessFilters \/ Enrich \/ Export

SpecBiz == InitBiz /\ [][NextBiz]_vars

\* the joined table the business filters are given: each sale with its brand
SaleBrand(sale) ==
    LET found == RowsWithId(products_df.rows, sale.product_id)
    IN  IF found = {} THEN Null ELSE products_df.rows[CHOOSE j \in found : TRUE].brand
IdsOf(rows) == [k \in 1 .. Len(rows) |-> rows[k].product_id]
BothOrdersAgree ==
    (Truthy(config.brands) /\ Truthy(config.product_ids)) =>
        \A df \in {merge(filtered_sales_df, products_df).value} :
            product_id_isin(brand_isin(df, config.brands.value), config.product_ids.value)
              = brand_isin(product_id_isin(df, config.product_ids.value), config.brands.value)

\* C9 as stated: a list is present when it is not None.  The rows left by the
\* business filters are the joined rows whose brand is in the brand list, when
\* present, and whose product_id is in the product-id list, when present; no row
\* of null brand is left by a present brand list; either order gives the same.
AllowListsIntersectWhenNotNone ==
    (pc = "enrich" /\ HasStage("business_filters")) =>
        LET BrandListed(brand) == config.brands.is_none \/ brand \in Items(config.brands.value)
            IdListed(id) == config.product_ids.is_none \/ id \in Items(config.product_ids.value)
        IN  /\ IdsOf(merged_df.rows) = IdsOf(SelectSeq(filtered_sales_df.rows,
                    LAMBDA sale : BrandListed(SaleBrand(sale)) /\ IdListed(sale.product_id)))
            /\ ~config.brands.is_none =>
                  \A k \in 1 .. Len(merged_df.rows) : merged_df.rows[k].brand # Null
            /\ BothOrdersAgree

\* C9: a list is present when it is a non-empty list.  The rows left by the
\* business filters are the joined rows whose brand is in the brand list, when
\* present, and whose product_id is in the product-id list, when present; no row
\* of null brand is left by a present brand list; either order gives the same;
\* an empty list filters nothing.
AllowListsIntersect ==
    (pc = "enrich" /\ HasStage("business_filters")) =>
        LET BrandPresent == ~config.brands.is_none /\ config.brands.value # <<>>
            IdPresent == ~config.product_ids.is_none /\ config.product_ids.value # <<>>
            BrandListed(brand) == BrandPresent => brand \in Items(config.brands.value)
            IdListed(id) == IdPresent => id \in Items(config.product_ids.value)
        IN  /\ IdsOf(merged_df.rows) = IdsOf(SelectSeq(filtered_sales_df.rows,
                    LAMBDA sale : BrandListed(SaleBrand(sale)) /\ IdListed(sale.product_id)))
            /\ \A k \in 1 .. Len(merged_df.rows) :
                  /\ BrandListed(merged_df.rows[k].brand)
                  /\ merged_df.rows[k].brand = SaleBrand(merged_df.rows[k])
            /\ BrandPresent =>
                  \A k \in 1 .. Len(merged_df.rows) : merged_df.rows[k].brand # Null
            /\ BothOrdersAgree

\* C9 witness: of a sale of BrandX product A and a sale of BrandY product B,
\* the lists [BrandX, BrandY] and [A] have left the first only.
AllowListsWitness ==
    /\ pc = "enrich" /\ HasStage("business_filters")
    /\ config.brands = Some(<<"BrandX", "BrandY">>) /\ config.product_ids = Some(<<"A">>)
    /\ IdsOf(filtered_sales_df.rows) = <<"A", "B">>
    /\ IdsOf(merged_df.rows) = <<"A">>

\* C9 witness: an empty brand list has left a sale of BrandY through.
EmptyAllowListWitness ==
    /\ pc = "enrich" /\ HasStage("business_filters")
    /\ config.brands = Some(<<>>) /\ config.product_ids.is_none
    /\ IdsOf(filtered_sales_df.rows) = <<"B">>
    /\ IdsOf(merged_df.rows) = <<"B">>

(***************************************************************************)
(* The safety bound within a whole run.                                    *)
(***************************************************************************)
\* C11: when a run fails with TooManyFilesError, no remote source has been
\* asked for anything: the catalog has not been queried and no blob has been
\* downloaded or listed.
TooManyFilesBeforeAnyRemoteCall ==
    error = "TooManyFilesError" => (queries = 0 /\ downloads = <<>> /\ listings = 0)

\* The part of C11 that holds of the code: no blob has been asked for.
TooManyFilesBeforeAnyDownload ==
    error = "TooManyFilesError" => (downloads = <<>> /\ listings = 0)

(***************************************************************************)
(* The diagnostic listing.                                                 *)
(***************************************************************************)
LoadWentOnAfterNotFound ==
    LET n == Len(downloads)
    IN  (n > 0 /\ downloads[n].outcome = "NotFound") =>
           /\ pc \in {"fetch", "sales_loaded"} /\ error = "none" /\ i = n
           /\ pc = "sales_loaded" =>
                 sales_df.rows = RowsOfDays(RangeDays(start_date, end_date))

\* C12: after a day whose blob was not found, whatever the listing did (listed,
\* or failed in any way), the load is at the next day with no error, and the
\* table it returns has the rows of the found days, as when every listing
\* succeeds.
ListingFailureNeverPropagates == listings > 0 => LoadWentOnAfterNotFound

\* The part of C12 that holds of the code: a listing that fails with a
\* GoogleAPIError is swallowed.
ApiListingFailureSwallowed ==
    (listings > 0 /\ listing # "Exception") => LoadWentOnAfterNotFound

(***************************************************************************)
(* The order of the downloads and of the rows returned.                    *)
(***************************************************************************)
\* C13: the days whose blob has been asked for are the first days of the
\* range, each once, in strictly ascending order; and the table returned has
\* the rows of the blobs found, by ascending day, each blob's rows in the order
\* of the file.
DaysFetchedOnceAscending ==
    LET days == RangeDays(start_date, end_date)
        n == Len(downloads)
    IN  (pc \in {"fetch", "sales_loaded", "failed"} /\ DateLe(start_date, end_date)) =>
           /\ n <= Len(days)
           /\ \A k \in 1 .. n : downloads[k].day = days[k]
           /\ \A j, k \in 1 .. n : j < k => DateLt(downloads[j].day, downloads[k].day)
           /\ Len(frames) = Cardinality({ k \in 1 .. n : downloads[k].outcome = "found" })
           /\ pc = "sales_loaded" =>
                 /\ n = Len(days)
                 /\ sales_df.rows = RowsOfDays(days)

\* C13 witness: of three days the first has a file of two rows, the second has
\* none and the third a file of one row; the three rows are returned in that
\* order.
DaysFetchedWitness ==
    /\ pc = "sales_loaded"
    /\ start_date = date(2025, 1, 31) /\ end_date = date(2025, 2, 2)
    /\ DOMAIN bucket = {date(2025, 1, 31), date(2025, 2, 2)}
    /\ bucket[date(2025, 1, 31)].rows = <<LoaderRows[2], LoaderRows[1]>>
    /\ bucket[date(2025, 2, 2)].rows = <<LoaderRows[1]>>
    /\ Len(downloads) = 3
    /\ sales_df.rows = <<LoaderRows[2], LoaderRows[1], LoaderRows[1]>>

(***************************************************************************)
(* The order of the export.                                                *)
(***************************************************************************)
BaseFields(row) == [c \in BaseCols |-> row[c]]

\* the rows the business filters left, in the order of the join
RowsAfterBusinessFilters ==
    business_filters(merge(filtered_sales_df, products_df).value,
                     config.brands, config.product_ids).rows

ExportedBaseRows == [k \in 1 .. Len(merged_df.rows) |-> BaseFields(merged_df.rows[k])]

\* ascending on sale_date, a missing date after every date
SaleDateAscending(r1, r2) ==
    \/ r2.sale_date = NoDate
    \/ r1.sale_date # NoDate /\ DateLe(r1.sale_date, r2.sale_date)
\* ascending on (sale_date, order_id), missing values last
DateThenOrderAscending(r1, r2) ==
    /\ SaleDateAscending(r1, r2)
    /\ r1.sale_date = r2.sale_date =>
          \/ r2.order_id = Null
          \/ r1.order_id # Null /\ Rank(r1.order_id) <= Rank(r2.order_id)

Enriched == pc \in {"export", "done"} /\ HasStage("business_filters")

\* C14: the table to export has the rows the business filters left, each once;
\* with both sale_date and order_id among its columns it is ascending on
\* (sale_date, order_id); with either column absent its rows are in the order
\* of the join.
ExportSortedOrJoinOrder ==
    Enriched =>
       /\ IsPermutation(ExportedBaseRows, RowsAfterBusinessFilters)
       /\ IF {"sale_date", "order_id"} \subseteq merged_df.cols
          THEN \A k \in 1 .. (Len(merged_df.rows) - 1) :
                  DateThenOrderAscending(merged_df.rows[k], merged_df.rows[k + 1])
          ELSE ExportedBaseRows = RowsAfterBusinessFilters

\* What holds of the code: sale_date is a column of every enriched table, and
\* the table is ascending on sale_date whether or not it has order_id.
ExportSortedByDateAtLeast ==
    Enriched =>
       /\ IsPermutation(ExportedBaseRows, RowsAfterBusinessFilters)
       /\ "sale_date" \in merged_df.cols
       /\ \A k \in 1 .. (Len(merged_df.rows) - 1) :
             /\ SaleDateAscending(merged_df.rows[k], merged_df.rows[k + 1])
             /\ "order_id" \in merged_df.cols =>
                   DateThenOrderAscending(merged_df.rows[k], merged_df.rows[k + 1])

(***************************************************************************)
(* Values of sold_at that are no timestamp.                                *)
(***************************************************************************)
Quarters == { <<"Q", DigitChar(q)>> : q \in 1 .. 4 }

\* the loaded sales have a row whose sold_at is missing or cannot be parsed
UncoercibleLoaded ==
    /\ HasStage("load_sales") /\ "sold_at" \in sales_df.cols
    /\ \E k \in 1 .. Len(sales_df.rows) : sales_df.rows[k].sold_at.kind # "ts"

\* every row of the enriched table has the derived fields of its sold_at, and
\* null derived fields when its sold_at is no timestamp
DerivedFieldsRight ==
    \A k \in 1 .. Len(merged_df.rows) :
       LET row == merged_df.rows[k]
       IN  IF row.sold_at.kind = "ts"
           THEN /\ row.sale_date = row.sold_at.date
                /\ row.year = Some(row.sold_at.date.year)
                /\ row.month = Some(row.sold_at.date.month)
                /\ row.quarter \in Quarters
                /\ \E q \in 1 .. 4 : /\ row.quarter = <<"Q", DigitChar(q)>>
                                     /\ row.sold_at.date.month \in (3 * q - 2) .. (3 * q)
           ELSE /\ row.sale_date = NoDate /\ row.year.is_none /\ row.month.is_none
                /\ row.quarter = <<>>

\* C15: a run whose sales have a row with a sold_at that is no timestamp does
\* not fail for it (it fails only at the write, for an unsupported format), and
\* the rows of its enriched table have the derived fields of their sold_at, null
\* ones included, the quarter being Q1..Q4 or null.
UncoercibleSoldAtNeverFatal ==
    UncoercibleLoaded =>
       /\ pc = "failed" => (error = "ValueError" /\ HasStage("enrich")
                               /\ config.output_format \notin {"parquet", "csv"})
       /\ (pc \in {"export", "done"} /\ ~empty(merged_df)) => DerivedFieldsRight

\* What holds of the code: a missing sold_at (null, NaT) is not fatal, its row
\* is left out by the temporal filter, and the rows exported are enriched.
MissingSoldAtNeverFatal ==
    (UncoercibleLoaded /\ \A k \in 1 .. Len(sales_df.rows) : sales_df.rows[k].sold_at.kind # "bad") =>
       /\ pc = "failed" => (error = "ValueError" /\ HasStage("enrich")
                               /\ config.output_format \notin {"parquet", "csv"})
       /\ (pc \in {"export", "done"} /\ ~empty(merged_df)) => DerivedFieldsRight

\* C15 witness of what holds: of a sale without sold_at and a sale of the day,
\* the second alone has been exported, in the first quarter.
MissingSoldAtWitness ==
    /\ pc = "done" /\ UncoercibleLoaded /\ Len(sales_df.rows) = 2
    /\ Len(exports[1].rows) = 1 /\ exports[1].rows[1].quarter = <<"Q", "1">>

(***************************************************************************)
(* _enrich_with_date_and_metadata on its own, applied to tables whose      *)
(* sold_at holds timestamps, missing values and values that are not dates. *)
(***************************************************************************)
EnrichRows ==
    { SaleRow("A", t, o) @@ NoProduct :
        t \in {AtTen, Timestamp(date(2025, 4, 1), 0, 5), NaT, BadTs}, o \in {"O1", "O2"} }

InitEnrich ==
    /\ pc = "enrich_call"
    /\ config = DatedConfig(RunDate, MONTH)
    /\ bq_table = NoTable /\ bucket = <<>>
    /\ sales_df = NoTable
    /\ start_date = NoDate /\ end_date = NoDate /\ max_files = NoneOf(0)
    /\ products_df = NoTable /\ sorted_df = NoTable /\ filtered_sales_df = NoTable
    /\ merged_df \in { DataFrame(BaseCols, rows) : rows \in SeqsUpTo(EnrichRows, MaxRows) }
    /\ NothingDone

CallEnrich ==
    /\ pc = "enrich_call"
    /\ \E processed_at \in Clock :
          merged_df' \in enrich_with_date_and_metadata(merged_df, processed_at)
    /\ pc' = "enriched"
    /\ UNCHANGED <<config, worldVars, products_df, sorted_df, sales_df, filtered_sales_df,
                   loaderVars, callVars, outVars, error>>

NextEnrich == CallEnrich

SpecEnrich == InitEnrich /\ [][NextEnrich]_vars

\* The enrichment gives every row the derived fields of its sold_at, null ones
\* for a sold_at that is no timestamp (violated: a NaT in the column makes the
\* quarters "Qnan" and "Q1.0").
EnrichDerivesOrNulls == pc = "enriched" => DerivedFieldsRight

\* The enrichment never raises, and a table whose sold_at are all timestamps
\* has the derived fields of each.
EnrichDerivesFromTimestamps ==
    pc = "enriched" =>
       /\ error = "none"
       /\ (\A k \in 1 .. Len(merged_df.rows) : merged_df.rows[k].sold_at.kind = "ts")
             => DerivedFieldsRight

(***************************************************************************)
(* Runs of every granularity under the default bound of 500 files, on      *)
(* sales whose sold_at lie on both sides of the edges of the day, the      *)
(* month, the quarter and the year of the reference date, on clocks behind *)
(* and ahead of UTC.                                                       *)
(***************************************************************************)
EdgeTimestamps ==
    << Timestamp(date(2025, 1, 31), 23, -5), Timestamp(date(2025, 2, 1), 0, 5),
       Timestamp(date(2025, 3, 31), 23, -5), Timestamp(date(2025, 4, 1), 0, 5),
       Timestamp(date(2024, 12, 31), 23, -5), Timestamp(date(2025, 1, 1), 0, 5),
       Timestamp(date(2025, 12, 31), 23, -5), NaT >>

\* the files made of up to MaxRows of these sales, in the order above
EdgeFiles ==
    { Parquet(SalesCols,
              [k \in 1 .. Cardinality(S) |->
                  SaleRow("A", EdgeTimestamps[CHOOSE j \in S : Cardinality({x \in S : x < j}) = k - 1],
                          "O1")]) :
        S \in { T \in SUBSET (1 .. Len(EdgeTimestamps)) : Cardinality(T) <= MaxRows } }

InitAgree ==
    /\ pc = "start"
    /\ \E g \in TimeGranularity : config = DatedConfig(RunDate, g)
    /\ bq_table = DataFrame(ProductCols, <<ProductRow("A", "P1", "BrandX")>>)
    /\ bucket \in {<<>>, (RunDate :> Corrupt)} \cup { (RunDate :> file) : file \in EdgeFiles }
    /\ sales_df = NoTable
    /\ start_date = NoDate /\ end_date = NoDate /\ max_files = NoneOf(0)
    /\ Fresh

SpecAgree == InitAgree /\ [][Next]_vars

\* the UTC date of a sold_at lies in the range of the reference date
InRange(ts, ref_date, granularity) ==
    LET range == compute_date_range(ref_date, granularity)
    IN  ts.kind = "ts" /\ DateLe(range[1], UtcDateOf(ts)) /\ DateLe(UtcDateOf(ts), range[2])

\* the value of filtered_sales_df is what filter_sales_by_date returned
FilterJustReturned ==
    \/ pc = "filtered" /\ error = "none" /\ ~empty(sales_df)
    \/ pc = "drop_null_sales"
    \/ pc = "enrich" /\ HasStage("no_match")

\* C16: a row passes the temporal filter if and only if the UTC date of its
\* sold_at lies in the inclusive range of days computed for the same reference
\* date and granularity; and every row of the table to export has its sale_date
\* within the range of days whose blobs were asked for.
FilterAgreesWithCalendar ==
    /\ FilterJustReturned =>
          LET kept == SelectSeq(sales_df.rows,
                          LAMBDA row : InRange(row.sold_at, config.ref_date, config.granularity))
          IN  /\ Len(filtered_sales_df.rows) = Len(kept)
              /\ \A k \in 1 .. Len(kept) :
                    /\ InstantOf(filtered_sales_df.rows[k].sold_at) = InstantOf(kept[k].sold_at)
                    /\ filtered_sales_df.rows[k].order_id = kept[k].order_id
    /\ (pc \in {"export", "done"} /\ HasStage("date_range")) =>
          \A k \in 1 .. Len(merged_df.rows) :
             /\ merged_df.rows[k].sale_date # NoDate
             /\ DateLe(start_date, merged_df.rows[k].sale_date)
             /\ DateLe(merged_df.rows[k].sale_date, end_date)
             /\ <<start_date, end_date>> = compute_date_range(config.ref_date, config.granularity)

\* C16 witness: a quarter's run on a sale of 2025-03-31 23:00 at UTC-5 (April in
\* UTC) and a sale of 2025-04-01 00:00 at UTC+5 (March in UTC) has exported the
\* second alone, after asking for the 90 blobs of the quarter.
FilterAgreesWitness ==
    /\ pc = "done" /\ config.granularity = QUARTER
    /\ Len(downloads) = 90
    /\ Len(sales_df.rows) = 2
    /\ sales_df.rows[1].sold_at = Timestamp(date(2025, 3, 31), 23, -5)
    /\ sales_df.rows[2].sold_at = Timestamp(date(2025, 4, 1), 0, 5)
    /\ Len(exports[1].rows) = 1
    /\ exports[1].rows[1].sale_date = date(2025, 3, 31)

====
